---- MODULE Spec2Model ----
(***************************************************************************)
(* State-machine model of src/src/App.tsx: the App component's React       *)
(* state, the connectivity probe (checkServer), the scrape request         *)
(* lifecycle (scrapeNews) and the user-input handlers of the rendered UI.  *)
(*                                                                         *)
(* Spec is the component as rendered: the handlers fire only when the      *)
(* widget that carries them is enabled; FairSpec adds that every request   *)
(* settles.  ControllerSpec is the same state with scrapeNews callable by  *)
(* any caller at any time, i.e. the function's own contract without the    *)
(* button guard.  DeriveSpec exercises the derived view                    *)
(* (filteredAndSortedNews) on a wider set of article lists.                *)
(***************************************************************************)
EXTENDS Integers, Sequences, FiniteSets, TLC

VARIABLES url, news, loading, filterKeyword, sortBy, error, serverStatus,
          probe, pending, latest, event

vars == <<url, news, loading, filterKeyword, sortBy, error, serverStatus,
          probe, pending, latest, event>>

(***************************************************************************)
(* Bounds of the model.                                                    *)
(***************************************************************************)
\* longest article list a response carries
MaxNews == 2
\* most scrape requests outstanding at once (only ControllerSpec reaches it)
MaxPending == 2

(***************************************************************************)
(* Message texts, verbatim from the source.                                *)
(***************************************************************************)
OfflineMsg == "Server is offline. Please make sure the server is running on port 5000."
EnterUrlMsg == "Please enter a website URL"
NoNewsMsg == "No news articles found. The website might use a different structure or dynamic loading."
FailedMsg == "Failed to scrape news. Please try a different URL."
NoResponseMsg == "No response from server. Please make sure the server is running."
ErrorPrefix == "Error: "

(***************************************************************************)
(* Input domains.                                                          *)
(***************************************************************************)
\* the preset list offered under "Other Available URLs" (two of the six)
newsUrls == {"https://news.abs-cbn.com/", "https://www.rappler.com/"}

\* texts the user can type into the URL field
TypedUrls == {"", " ", "A"} \cup newsUrls

\* texts the user can type into the filter field
Keywords == {"", "tech"}

\* NewsItem values the remote service may return
NewsItems ==
  { [title |-> "New Tech Launch", author |-> "Unknown", date |-> "2024-01-10"],
    [title |-> "Sports Update", author |-> "Juan", date |-> "2024-03-01"] }

\* non-empty article lists of length at most MaxNews
NewsLists == UNION { [1..n -> NewsItems] : n \in 1..MaxNews }

\* the marker of a field that is undefined in a JavaScript object
Absent == "<undefined>"

\* response.data of a fulfilled POST /scrape: news absent (hasNews = FALSE),
\* an empty array, or a non-empty array
ScrapeBodies == {[hasNews |-> FALSE, news |-> <<>>], [hasNews |-> TRUE, news |-> <<>>]} \cup
                { [hasNews |-> TRUE, news |-> l] : l \in NewsLists }

\* error texts a structured error body may carry ("" is a present but empty text)
ErrorTexts == {Absent, "", "Unsupported site structure"}

\* failure descriptions (Error.message) of a rejected request
FailureMessages == {"Network Error", "Invalid URL"}

\* the ApiError shapes of a rejected POST /scrape
ApiErrors == [response : BOOLEAN, dataError : ErrorTexts,
              request : BOOLEAN, message : FailureMessages]

\* outcomes of a POST /scrape promise, tagged by how it settled
Fulfilled(body) == [kind |-> "fulfilled", body |-> body]
Rejected(apiError) == [kind |-> "rejected", apiError |-> apiError]

\* no request submitted yet / the latest submitted request is still outstanding
NoOutcome == [kind |-> "none"]
Waiting == [kind |-> "waiting"]

(***************************************************************************)
(* JavaScript helpers.                                                     *)
(***************************************************************************)
\* truthiness of a string-or-undefined value: undefined and '' are falsy
Truthy(s) == s # Absent /\ s # ""

\* String.prototype.trim() === '' : the text has nothing but spaces
IsBlank(s) == \A i \in 1..Len(s) : SubSeq(s, i, i) = " "

(***************************************************************************)
(* Rendered conditions.                                                    *)
(***************************************************************************)
\* variant: the button is disabled only while url is empty
ScrapeButtonEnabledNoLoading == Truthy(url)

\* variant: the button is also disabled unless the server is known to be online
ScrapeButtonEnabledOnlineOnly == ~loading /\ Truthy(url) /\ serverStatus = "online"

\* <Button disabled={loading || !url}>
ScrapeButtonEnabled == ~loading /\ Truthy(url)

\* <TextField ... disabled={loading}> of the URL field
UrlFieldEnabled == ~loading

\* filter TextField and sort Select: disabled={news.length === 0}
CriteriaEnabled == Len(news) # 0

\* variant: the banner is rendered from the error text instead of the status
OfflineBannerFromError == IF error = OfflineMsg THEN OfflineMsg ELSE ""

\* {serverStatus === 'offline' && <Alert>Server is offline...</Alert>}
OfflineBanner == IF serverStatus = "offline" THEN OfflineMsg ELSE ""

\* <Snackbar open={!!error}>
SnackbarOpen == Truthy(error)

TypeOK ==
  /\ url \in TypedUrls
  /\ news \in {<<>>} \cup NewsLists
  /\ loading \in BOOLEAN
  /\ filterKeyword \in Keywords
  /\ sortBy \in {"date", "title"}
  /\ serverStatus \in {"checking", "online", "offline"}
  /\ probe \in {"pending", "fulfilled", "rejected"}
  /\ Len(pending) <= MaxPending

(***************************************************************************)
(* Initial state: the useState defaults, with the mount effect's           *)
(* GET /test already issued.                                               *)
(***************************************************************************)
Init ==
  /\ url = ""
  /\ news = <<>>
  /\ loading = FALSE
  /\ filterKeyword = ""
  /\ sortBy = "date"
  /\ error = ""
  /\ serverStatus = "checking"
  /\ probe = "pending"
  /\ pending = <<>>
  /\ latest = NoOutcome
  /\ event = [op |-> "mount", out |-> NoOutcome]

(***************************************************************************)
(* The variables probe, pending, latest and event are the environment and  *)
(* the bookkeeping of the run: probe is the state of the GET /test         *)
(* promise, pending the POST /scrape promises not yet settled (in order of *)
(* issue, each with its payload), latest the outcome of the most recently  *)
(* submitted request, event the handler that ran last and the outcome it   *)
(* processed.                                                              *)
(***************************************************************************)
Ev(op) == [op |-> op, out |-> NoOutcome]

(***************************************************************************)
(* checkServer: the two continuations of await axios.get(.../test).        *)
(***************************************************************************)
\* variant: a successful probe schedules another probe
checkServerOnlineRetry ==
  /\ probe = "pending"
  /\ probe' = "pending"
  /\ serverStatus' = "online"
  /\ event' = Ev("checkServerOnline")
  /\ UNCHANGED <<url, news, loading, filterKeyword, sortBy, error, pending, latest>>

\* variant: a successful probe also clears the error text
checkServerOnlineClearsError ==
  /\ probe = "pending"
  /\ probe' = "fulfilled"
  /\ serverStatus' = "online"
  /\ error' = ""
  /\ event' = Ev("checkServerOnline")
  /\ UNCHANGED <<url, news, loading, filterKeyword, sortBy, pending, latest>>

checkServerOnline ==
  /\ probe = "pending"
  /\ probe' = "fulfilled"
  /\ serverStatus' = "online"
  /\ event' = Ev("checkServerOnline")
  /\ UNCHANGED <<url, news, loading, filterKeyword, sortBy, error, pending, latest>>

checkServerOffline ==
  /\ probe = "pending"
  /\ probe' = "rejected"
  /\ serverStatus' = "offline"
  /\ error' = OfflineMsg
  /\ event' = Ev("checkServerOffline")
  /\ UNCHANGED <<url, news, loading, filterKeyword, sortBy, pending, latest>>

(***************************************************************************)
(* scrapeNews up to its await: validation, state reset, request issued.    *)
(***************************************************************************)
\* variant: the reset before the request omits setNews([])
scrapeNewsKeepsNews ==
  /\ event' = Ev("scrapeNews")
  /\ IF ~Truthy(url)
       THEN /\ error' = EnterUrlMsg
            /\ UNCHANGED <<url, news, loading, filterKeyword, sortBy,
                           serverStatus, probe, pending, latest>>
       ELSE /\ Len(pending) < MaxPending
            /\ loading' = TRUE
            /\ error' = ""
            /\ pending' = Append(pending, [url |-> url])
            /\ latest' = Waiting
            /\ UNCHANGED <<url, news, filterKeyword, sortBy, serverStatus, probe>>

\* variant: the reset before the request omits setLoading(true)
scrapeNewsNoLoading ==
  /\ event' = Ev("scrapeNews")
  /\ IF ~Truthy(url)
       THEN /\ error' = EnterUrlMsg
            /\ UNCHANGED <<url, news, loading, filterKeyword, sortBy,
                           serverStatus, probe, pending, latest>>
       ELSE /\ Len(pending) < MaxPending
            /\ error' = ""
            /\ news' = <<>>
            /\ pending' = Append(pending, [url |-> url])
            /\ latest' = Waiting
            /\ UNCHANGED <<url, loading, filterKeyword, sortBy, serverStatus, probe>>

\* variant: a new request also resets the filter keyword
scrapeNewsResetsFilter ==
  /\ event' = Ev("scrapeNews")
  /\ IF ~Truthy(url)
       THEN /\ error' = EnterUrlMsg
            /\ UNCHANGED <<url, news, loading, filterKeyword, sortBy,
                           serverStatus, probe, pending, latest>>
       ELSE /\ Len(pending) < MaxPending
            /\ loading' = TRUE
            /\ error' = ""
            /\ news' = <<>>
            /\ filterKeyword' = ""
            /\ pending' = Append(pending, [url |-> url])
            /\ latest' = Waiting
            /\ UNCHANGED <<url, sortBy, serverStatus, probe>>

scrapeNews ==
  /\ event' = Ev("scrapeNews")
  /\ IF ~Truthy(url)
       THEN /\ error' = EnterUrlMsg
            /\ UNCHANGED <<url, news, loading, filterKeyword, sortBy,
                           serverStatus, probe, pending, latest>>
       ELSE /\ Len(pending) < MaxPending
            /\ loading' = TRUE
            /\ error' = ""
            /\ news' = <<>>
            /\ pending' = Append(pending, [url |-> url])
            /\ latest' = Waiting
            /\ UNCHANGED <<url, filterKeyword, sortBy, serverStatus, probe>>

\* onClick={scrapeNews} of the button, which is clickable only when enabled
triggerScrape == ScrapeButtonEnabled /\ scrapeNews

(***************************************************************************)
(* scrapeNews after its await: the try branch, the catch branch, finally.  *)
(***************************************************************************)
\* the i-th outstanding request is the one submitted last
IsLatest(i) == latest = Waiting /\ i = Len(pending)

RemoveAt(s, i) == SubSeq(s, 1, i - 1) \o SubSeq(s, i + 1, Len(s))

\* variant: only response.data.news is tested (an empty array is truthy)
HasArticlesTruthyOnly(body) == body.hasNews

\* response.data.news && response.data.news.length > 0
HasArticles(body) == body.hasNews /\ Len(body.news) > 0

\* variant: the catch branch tests apiError.request before apiError.response
CatchMessageRequestFirst(apiError) ==
  IF apiError.request
    THEN NoResponseMsg
    ELSE IF apiError.response
           THEN IF Truthy(apiError.dataError) THEN apiError.dataError ELSE FailedMsg
           ELSE ErrorPrefix \o apiError.message

\* the message chosen by the catch branch
CatchMessage(apiError) ==
  IF apiError.response
    THEN IF Truthy(apiError.dataError) THEN apiError.dataError ELSE FailedMsg
    ELSE IF apiError.request
           THEN NoResponseMsg
           ELSE ErrorPrefix \o apiError.message

\* variant: the success branch also calls setError('')
scrapeFulfilledClearsError(i, body) ==
  /\ i \in 1..Len(pending)
  /\ IF HasArticles(body)
       THEN news' = body.news /\ error' = ""
       ELSE news' = news /\ error' = NoNewsMsg
  /\ loading' = FALSE
  /\ pending' = RemoveAt(pending, i)
  /\ latest' = IF IsLatest(i) THEN Fulfilled(body) ELSE latest
  /\ event' = [op |-> "scrapeFulfilled", out |-> Fulfilled(body)]
  /\ UNCHANGED <<url, filterKeyword, sortBy, serverStatus, probe>>

scrapeFulfilled(i, body) ==
  /\ i \in 1..Len(pending)
  /\ IF HasArticles(body)
       THEN news' = body.news /\ error' = error
       ELSE news' = news /\ error' = NoNewsMsg
  /\ loading' = FALSE
  /\ pending' = RemoveAt(pending, i)
  /\ latest' = IF IsLatest(i) THEN Fulfilled(body) ELSE latest
  /\ event' = [op |-> "scrapeFulfilled", out |-> Fulfilled(body)]
  /\ UNCHANGED <<url, filterKeyword, sortBy, serverStatus, probe>>

\* variant: setLoading(false) sits at the end of the try block, not in finally
scrapeRejectedNoFinally(i, apiError) ==
  /\ i \in 1..Len(pending)
  /\ error' = CatchMessage(apiError)
  /\ loading' = loading
  /\ pending' = RemoveAt(pending, i)
  /\ latest' = IF IsLatest(i) THEN Rejected(apiError) ELSE latest
  /\ event' = [op |-> "scrapeRejected", out |-> Rejected(apiError)]
  /\ UNCHANGED <<url, news, filterKeyword, sortBy, serverStatus, probe>>

\* variant: the catch branch sends the request again
scrapeRejectedRetries(i, apiError) ==
  /\ i \in 1..Len(pending)
  /\ error' = CatchMessage(apiError)
  /\ loading' = TRUE
  /\ pending' = Append(RemoveAt(pending, i), pending[i])
  /\ latest' = latest
  /\ event' = [op |-> "scrapeRejected", out |-> Rejected(apiError)]
  /\ UNCHANGED <<url, news, filterKeyword, sortBy, serverStatus, probe>>

scrapeRejected(i, apiError) ==
  /\ i \in 1..Len(pending)
  /\ error' = CatchMessage(apiError)
  /\ loading' = FALSE
  /\ pending' = RemoveAt(pending, i)
  /\ latest' = IF IsLatest(i) THEN Rejected(apiError) ELSE latest
  /\ event' = [op |-> "scrapeRejected", out |-> Rejected(apiError)]
  /\ UNCHANGED <<url, news, filterKeyword, sortBy, serverStatus, probe>>

\* some outstanding request settles, with any outcome
scrapeSettles ==
  \E i \in 1..Len(pending) :
    \/ \E body \in ScrapeBodies : scrapeFulfilled(i, body)
    \/ \E apiError \in ApiErrors : scrapeRejected(i, apiError)

(***************************************************************************)
(* User-input handlers.                                                    *)
(***************************************************************************)
\* onChange of the URL field
urlFieldChange(u) ==
  /\ UrlFieldEnabled
  /\ url' = u
  /\ event' = Ev("setUrl")
  /\ UNCHANGED <<news, loading, filterKeyword, sortBy, error, serverStatus,
                 probe, pending, latest>>

\* onClick of an entry under "Other Available URLs" (never disabled)
pickNewsUrl(u) ==
  /\ url' = u
  /\ event' = Ev("setUrl")
  /\ UNCHANGED <<news, loading, filterKeyword, sortBy, error, serverStatus,
                 probe, pending, latest>>

\* variant: typing into the filter field also clears the error text
filterFieldChangeClearsError(k) ==
  /\ CriteriaEnabled
  /\ filterKeyword' = k
  /\ error' = ""
  /\ event' = Ev("setFilterKeyword")
  /\ UNCHANGED <<url, news, loading, sortBy, serverStatus,
                 probe, pending, latest>>

\* onChange of the filter field
filterFieldChange(k) ==
  /\ CriteriaEnabled
  /\ filterKeyword' = k
  /\ event' = Ev("setFilterKeyword")
  /\ UNCHANGED <<url, news, loading, sortBy, error, serverStatus,
                 probe, pending, latest>>

\* onChange of the sort select
sortSelectChange(s) ==
  /\ CriteriaEnabled
  /\ sortBy' = s
  /\ event' = Ev("setSortBy")
  /\ UNCHANGED <<url, news, loading, filterKeyword, error, serverStatus,
                 probe, pending, latest>>

\* onClose of the Alert inside the Snackbar: the user presses its close button
dismissError ==
  /\ SnackbarOpen
  /\ error' = ""
  /\ event' = Ev("dismissError")
  /\ UNCHANGED <<url, news, loading, filterKeyword, sortBy, serverStatus,
                 probe, pending, latest>>

\* onClose of the Snackbar itself: its autoHideDuration of 6000 ms elapses
snackbarAutoHide ==
  /\ SnackbarOpen
  /\ error' = ""
  /\ event' = Ev("snackbarAutoHide")
  /\ UNCHANGED <<url, news, loading, filterKeyword, sortBy, serverStatus,
                 probe, pending, latest>>

(***************************************************************************)
(* String operations used by the view: toLowerCase and includes.           *)
(***************************************************************************)
Lowers == "abcdefghijklmnopqrstuvwxyz"
Uppers == "ABCDEFGHIJKLMNOPQRSTUVWXYZ"

\* the i-th character of s, as a one-character string
CharAt(s, i) == SubSeq(s, i, i)

\* position of character c in alphabet, 0 when it does not occur
IndexIn(c, alphabet) ==
  IF \E i \in 1..Len(alphabet) : CharAt(alphabet, i) = c
    THEN CHOOSE i \in 1..Len(alphabet) : CharAt(alphabet, i) = c
    ELSE 0

ToLowerChar(c) ==
  LET k == IndexIn(c, Uppers) IN IF k > 0 THEN CharAt(Lowers, k) ELSE c

\* String.prototype.toLowerCase
RECURSIVE ToLowerCase(_)
ToLowerCase(s) ==
  IF Len(s) = 0 THEN ""
  ELSE ToLowerChar(CharAt(s, 1)) \o ToLowerCase(SubSeq(s, 2, Len(s)))

\* String.prototype.includes: t occurs in s as a contiguous substring
Includes(s, t) ==
  \E i \in 1..(Len(s) - Len(t) + 1) : SubSeq(s, i, i + Len(t) - 1) = t

(***************************************************************************)
(* filteredAndSortedNews: the filter.                                      *)
(***************************************************************************)
\* variant: the filter looks at the title only
MatchesTitleOnly(item, keyword) ==
  \/ keyword = ""
  \/ Includes(ToLowerCase(item.title), ToLowerCase(keyword))

\* the predicate handed to news.filter
Matches(item, keyword) ==
  \/ keyword = ""
  \/ Includes(ToLowerCase(item.title), ToLowerCase(keyword))
  \/ Includes(ToLowerCase(item.author), ToLowerCase(keyword))

\* Array.prototype.filter: a new array of the elements that pass, in order
RECURSIVE ArrayFilter(_, _)
ArrayFilter(arr, keyword) ==
  IF arr = <<>> THEN <<>>
  ELSE (IF Matches(Head(arr), keyword) THEN <<Head(arr)>> ELSE <<>>)
         \o ArrayFilter(Tail(arr), keyword)

(***************************************************************************)
(* JavaScript numbers, as far as the comparator needs them: a value or NaN.*)
(***************************************************************************)
Num(n) == [isNaN |-> FALSE, val |-> n]
NaN == [isNaN |-> TRUE, val |-> 0]

\* the binary minus: NaN when either operand is NaN
Minus(a, b) == IF a.isNaN \/ b.isNaN THEN NaN ELSE Num(a.val - b.val)

(***************************************************************************)
(* new Date(text).getTime() for the date-only form YYYY-MM-DD; any other   *)
(* text of the input sets is not a date and yields NaN.  The time value is *)
(* kept in days since 1970-01-01 (the date-only form is UTC midnight, so   *)
(* the value in milliseconds is this number times 86400000).               *)
(***************************************************************************)
Digits == "0123456789"

IsDigit(c) == IndexIn(c, Digits) > 0
DigitVal(c) == IndexIn(c, Digits) - 1

\* the decimal value of the digits s[from..to]
RECURSIVE DecimalAt(_, _, _)
DecimalAt(s, from, to) ==
  IF to < from THEN 0
  ELSE 10 * DecimalAt(s, from, to - 1) + DigitVal(CharAt(s, to))

IsLeapYear(y) == (y % 4 = 0 /\ y % 100 # 0) \/ y % 400 = 0

DaysInMonth(y, m) ==
  IF m = 2 THEN (IF IsLeapYear(y) THEN 29 ELSE 28)
  ELSE IF m \in {4, 6, 9, 11} THEN 30 ELSE 31

\* days from 1970-01-01 to the civil date y-m-d
DaysFromCivil(y, m, d) ==
  LET yy == IF m <= 2 THEN y - 1 ELSE y
      era == yy \div 400
      yoe == yy - era * 400
      mp == IF m > 2 THEN m - 3 ELSE m + 9
      doy == (153 * mp + 2) \div 5 + d - 1
      doe == yoe * 365 + yoe \div 4 - yoe \div 100 + doy
  IN era * 146097 + doe - 719468

IsIsoDate(s) ==
  /\ Len(s) = 10
  /\ CharAt(s, 5) = "-" /\ CharAt(s, 8) = "-"
  /\ \A i \in {1, 2, 3, 4, 6, 7, 9, 10} : IsDigit(CharAt(s, i))
  /\ DecimalAt(s, 6, 7) \in 1..12
  /\ DecimalAt(s, 9, 10) \in 1..DaysInMonth(DecimalAt(s, 1, 4), DecimalAt(s, 6, 7))

GetTime(s) ==
  IF IsIsoDate(s)
    THEN Num(DaysFromCivil(DecimalAt(s, 1, 4), DecimalAt(s, 6, 7), DecimalAt(s, 9, 10)))
    ELSE NaN

(***************************************************************************)
(* String.prototype.localeCompare under the default collation, for texts   *)
(* of letters and spaces: letters are compared first without regard to     *)
(* case (space before any letter); texts equal in letters are ordered by   *)
(* case, lower case first.                                                 *)
(***************************************************************************)
CollationOrder == " abcdefghijklmnopqrstuvwxyz"

PrimaryKey(c) == IndexIn(ToLowerChar(c), CollationOrder)

\* lower case before upper case
CaseKey(c) == IF IndexIn(c, Uppers) > 0 THEN 1 ELSE 0

\* lexicographic comparison of a and b by the key of their characters: -1, 0, 1
RECURSIVE CompareBy(_, _, _)
CompareBy(a, b, usePrimary) ==
  IF Len(a) = 0 /\ Len(b) = 0 THEN 0
  ELSE IF Len(a) = 0 THEN -1
  ELSE IF Len(b) = 0 THEN 1
  ELSE LET ka == IF usePrimary THEN PrimaryKey(CharAt(a, 1)) ELSE CaseKey(CharAt(a, 1))
           kb == IF usePrimary THEN PrimaryKey(CharAt(b, 1)) ELSE CaseKey(CharAt(b, 1))
       IN IF ka < kb THEN -1
          ELSE IF ka > kb THEN 1
          ELSE CompareBy(SubSeq(a, 2, Len(a)), SubSeq(b, 2, Len(b)), usePrimary)

LocaleCompare(a, b) ==
  LET p == CompareBy(a, b, TRUE) IN IF p # 0 THEN p ELSE CompareBy(a, b, FALSE)

\* comparison of the UTF-16 code units, as the < operator on strings does it
CodeUnitOrder == " ABCDEFGHIJKLMNOPQRSTUVWXYZabcdefghijklmnopqrstuvwxyz"

RECURSIVE CodeUnitCompare(_, _)
CodeUnitCompare(a, b) ==
  IF Len(a) = 0 /\ Len(b) = 0 THEN 0
  ELSE IF Len(a) = 0 THEN -1
  ELSE IF Len(b) = 0 THEN 1
  ELSE LET ka == IndexIn(CharAt(a, 1), CodeUnitOrder)
           kb == IndexIn(CharAt(b, 1), CodeUnitOrder)
       IN IF ka < kb THEN -1
          ELSE IF ka > kb THEN 1
          ELSE CodeUnitCompare(SubSeq(a, 2, Len(a)), SubSeq(b, 2, Len(b)))

(***************************************************************************)
(* filteredAndSortedNews: the comparator handed to sort.                   *)
(***************************************************************************)
\* variant: the dates are subtracted the other way round
CompareDateAscending(a, b, key) ==
  IF key = "date"
    THEN Minus(GetTime(a.date), GetTime(b.date))
    ELSE Num(LocaleCompare(a.title, b.title))

\* variant: the titles are compared by code units
CompareTitleByCodeUnits(a, b, key) ==
  IF key = "date"
    THEN Minus(GetTime(b.date), GetTime(a.date))
    ELSE Num(CodeUnitCompare(a.title, b.title))

Compare(a, b, key) ==
  IF key = "date"
    THEN Minus(GetTime(b.date), GetTime(a.date))
    ELSE Num(LocaleCompare(a.title, b.title))

\* SortCompare of Array.prototype.sort: a NaN from the comparator counts as +0
SortCompare(a, b, key) ==
  LET v == Compare(a, b, key) IN IF v.isNaN THEN 0 ELSE v.val

(***************************************************************************)
(* Array.prototype.sort.  The sort is stable; with a comparator that is a  *)
(* consistent ordering every algorithm gives the same result, otherwise    *)
(* the order depends on the engine's algorithm.  Two algorithms are        *)
(* modelled: a linear insertion sort, and the run detection followed by    *)
(* binary insertion that a TimSort applies to a short array.               *)
(***************************************************************************)
Engines == {"insertion", "timsort"}

Front(s) == SubSeq(s, 1, Len(s) - 1)
Last(s) == s[Len(s)]

RECURSIVE Reverse(_)
Reverse(s) == IF s = <<>> THEN <<>> ELSE Reverse(Tail(s)) \o <<Head(s)>>

\* x put into the sorted array, behind the last element that is not greater
RECURSIVE InsertLinear(_, _, _)
InsertLinear(sorted, x, key) ==
  IF sorted = <<>> THEN <<x>>
  ELSE IF SortCompare(Last(sorted), x, key) > 0
         THEN InsertLinear(Front(sorted), x, key) \o <<Last(sorted)>>
         ELSE sorted \o <<x>>

RECURSIVE InsertionSort(_, _)
InsertionSort(arr, key) ==
  IF arr = <<>> THEN <<>>
  ELSE InsertLinear(InsertionSort(Front(arr), key), Last(arr), key)

\* length of the run the array starts with: strictly descending when the
\* second element orders before the first, non-descending otherwise
RECURSIVE RunLength(_, _, _, _)
RunLength(arr, key, descending, n) ==
  IF n = Len(arr) THEN n
  ELSE LET order == SortCompare(arr[n + 1], arr[n], key) IN
       IF (descending /\ order >= 0) \/ (~descending /\ order < 0)
         THEN n
         ELSE RunLength(arr, key, descending, n + 1)

\* number of elements of the sorted array that the pivot goes behind
RECURSIVE BinarySearch(_, _, _, _, _)
BinarySearch(sorted, pivot, key, left, right) ==
  IF left >= right THEN left
  ELSE LET mid == (left + right) \div 2 IN
       IF SortCompare(pivot, sorted[mid + 1], key) < 0
         THEN BinarySearch(sorted, pivot, key, left, mid)
         ELSE BinarySearch(sorted, pivot, key, mid + 1, right)

InsertBinary(sorted, pivot, key) ==
  LET k == BinarySearch(sorted, pivot, key, 0, Len(sorted)) IN
    SubSeq(sorted, 1, k) \o <<pivot>> \o SubSeq(sorted, k + 1, Len(sorted))

\* the elements arr[from..] inserted one by one into the sorted array
RECURSIVE InsertRest(_, _, _, _)
InsertRest(sorted, arr, from, key) ==
  IF from > Len(arr) THEN sorted
  ELSE InsertRest(InsertBinary(sorted, arr[from], key), arr, from + 1, key)

ShortTimSort(arr, key) ==
  IF Len(arr) < 2 THEN arr
  ELSE LET descending == SortCompare(arr[2], arr[1], key) < 0
           run == RunLength(arr, key, descending, 2)
           start == IF descending THEN Reverse(SubSeq(arr, 1, run))
                                  ELSE SubSeq(arr, 1, run)
       IN InsertRest(start, arr, run + 1, key)

ArraySort(engine, arr, key) ==
  IF engine = "insertion" THEN InsertionSort(arr, key) ELSE ShortTimSort(arr, key)

(***************************************************************************)
(* filteredAndSortedNews, as each engine computes it, and the render that  *)
(* evaluates it.                                                           *)
(***************************************************************************)
\* s without the later repetitions of an element
RECURSIVE Distinct(_)
Distinct(s) ==
  IF s = <<>> THEN <<>>
  ELSE LET d == Distinct(Front(s)) IN
       IF \E i \in 1..Len(d) : d[i] = Last(s) THEN d ELSE d \o <<Last(s)>>

\* variant: repeated articles are shown once
filteredAndSortedNewsDistinct(engine) ==
  Distinct(ArraySort(engine, ArrayFilter(news, filterKeyword), sortBy))

filteredAndSortedNews(engine) ==
  ArraySort(engine, ArrayFilter(news, filterKeyword), sortBy)

\* the value a render hands to the grid, for each engine
Rendered == [kind |-> "view", view |-> [e \in Engines |-> filteredAndSortedNews(e)]]

\* variant: news.sort(...) is called on the state array itself, before the filter
renderSortsInPlace ==
  /\ event' = [op |-> "render", out |-> Rendered]
  /\ \E e \in Engines : news' = ArraySort(e, news, sortBy)
  /\ UNCHANGED <<url, loading, filterKeyword, sortBy, error, serverStatus,
                 probe, pending, latest>>

\* a render of App: the view is computed from a copy made by filter, the
\* state is left alone
render ==
  /\ event' = [op |-> "render", out |-> Rendered]
  /\ UNCHANGED <<url, news, loading, filterKeyword, sortBy, error, serverStatus,
                 probe, pending, latest>>

(***************************************************************************)
(* The view's inputs.  The view reads news, filterKeyword and sortBy only; *)
(* DeriveSpec starts right after a request for url "A" was answered with   *)
(* an article list drawn from DeriveItems and lets the user change the     *)
(* criteria and the component render.                                      *)
(***************************************************************************)
\* longest article list handed to the view
MaxView == 3

DeriveItems == NewsItems \cup
  { [title |-> "Weather", author |-> "Techie Reporter", date |-> "2024-02-15"],
    [title |-> "Banana", author |-> "Juan", date |-> "Unknown"],
    [title |-> "apple", author |-> "Ana", date |-> "2024-03-01"],
    [title |-> "Cherry", author |-> "Juan", date |-> ""] }

DeriveLists == UNION { [1..n -> DeriveItems] : n \in 1..MaxView }

DeriveKeywords == Keywords \cup {"TECH", "an"}

DeriveInit ==
  \E l \in DeriveLists :
    /\ url = "A"
    /\ news = l
    /\ loading = FALSE
    /\ filterKeyword = ""
    /\ sortBy = "date"
    /\ error = ""
    /\ serverStatus = "online"
    /\ probe = "fulfilled"
    /\ pending = <<>>
    /\ latest = Fulfilled([hasNews |-> TRUE, news |-> l])
    /\ event = [op |-> "scrapeFulfilled",
                out |-> Fulfilled([hasNews |-> TRUE, news |-> l])]

DeriveNext ==
  \/ render
  \/ \E k \in DeriveKeywords : filterFieldChange(k)
  \/ \E s \in {"date", "title"} : sortSelectChange(s)

DeriveSpec == DeriveInit /\ [][DeriveNext]_vars

(***************************************************************************)
(* Specifications.                                                         *)
(***************************************************************************)
Inputs ==
  \/ \E u \in TypedUrls : urlFieldChange(u)
  \/ \E u \in newsUrls : pickNewsUrl(u)
  \/ \E k \in Keywords : filterFieldChange(k)
  \/ \E s \in {"date", "title"} : sortSelectChange(s)
  \/ dismissError
  \/ snackbarAutoHide

Next ==
  \/ checkServerOnline
  \/ checkServerOffline
  \/ triggerScrape
  \/ scrapeSettles
  \/ Inputs

Spec == Init /\ [][Next]_vars

\* every issued request eventually yields an outcome
FairSpec == Spec /\ WF_vars(scrapeSettles)

\* scrapeNews invoked by any caller, whatever the button's state
ControllerNext ==
  \/ checkServerOnline
  \/ checkServerOffline
  \/ scrapeNews
  \/ scrapeSettles
  \/ Inputs

ControllerSpec == Init /\ [][ControllerNext]_vars

(***************************************************************************)
(* Properties.                                                             *)
(***************************************************************************)
\* the body's article list is present and non-empty / absent or empty
ListNonEmpty(body) == body.hasNews /\ body.news # <<>>
ListAbsentOrEmpty(body) == ~body.hasNews \/ body.news = <<>>

\* everything a handler may touch except error (and the record of the event)
exceptError == <<url, news, loading, filterKeyword, sortBy, serverStatus,
                 probe, pending, latest>>

C2_BlankUrlRejected ==
  [][ (event'.op = "scrapeNews" /\ IsBlank(url))
        => /\ error' = EnterUrlMsg
           /\ pending' = pending
           /\ news' = news
           /\ loading' = loading ]_vars

\* C3: every accepted submit (non-empty url, request issued) is eventually
\* followed by a state with loading = false, given that every issued request
\* eventually settles.
C3_SubmitEndsLoading ==
  (event.op = "scrapeNews" /\ latest = Waiting) ~> ~loading

\* a request that was sent and got no usable outcome has been processed and
\* loading is off again
C3_Witness ==
  /\ event.op = "scrapeRejected"
  /\ ~event.out.apiError.response
  /\ pending = <<>>
  /\ ~loading

C5_EmptyResult ==
  (event.op = "scrapeFulfilled" /\ ListAbsentOrEmpty(event.out.body))
    => (error = NoNewsMsg /\ news = <<>>)

\* a response with an empty array (present, but no articles) was processed
C5_Witness ==
  /\ event.op = "scrapeFulfilled"
  /\ event.out.body.hasNews
  /\ event.out.body.news = <<>>
  /\ error = NoNewsMsg

\* C6: right after a request fails, error is the body's error text (or the
\* generic fallback) when a response was received, else the no-response
\* message when the request was sent, else "Error: " and the description;
\* news is empty.
C6_FailurePrecedence ==
  event.op = "scrapeRejected" =>
    LET e == event.out.apiError IN
      /\ news = <<>>
      /\ e.response =>
           error = (IF e.dataError \in {Absent, ""} THEN FailedMsg ELSE e.dataError)
      /\ (~e.response /\ e.request) => error = NoResponseMsg
      /\ (~e.response /\ ~e.request) => error = "Error: " \o e.message

\* a failure carrying both a response and a request: the response's text wins
C6_Witness ==
  /\ event.op = "scrapeRejected"
  /\ event.out.apiError.response
  /\ event.out.apiError.request
  /\ error = "Unsupported site structure"

\* C7: serverStatus starts at checking and changes only by leaving checking,
\* to online on the probe's success or to offline on its failure; once it has
\* left checking nothing changes it.
C7_StatusSettlesOnce ==
  /\ serverStatus = "checking"
  /\ [][ serverStatus' # serverStatus
           => /\ serverStatus = "checking"
              /\ \/ serverStatus' = "online" /\ event'.op = "checkServerOnline"
                 \/ serverStatus' = "offline" /\ event'.op = "checkServerOffline" ]_vars

\* the status has settled and a submission has since run to completion
C7_Witness ==
  /\ serverStatus = "online"
  /\ event.op = "scrapeRejected"
  /\ filterKeyword = "tech"

\* C8: once the probe has failed, serverStatus is offline and the offline
\* message is shown (by the banner), whatever submissions follow; right after
\* the failure the message is also in error.
C8_OfflineSticky ==
  /\ probe = "rejected" => (serverStatus = "offline" /\ OfflineBanner = OfflineMsg)
  /\ event.op = "checkServerOffline" => error = OfflineMsg

\* after the probe failed, a submission cleared error and then succeeded
C8_Witness ==
  /\ probe = "rejected"
  /\ event.op = "scrapeFulfilled"
  /\ news # <<>>
  /\ error = ""
  /\ serverStatus = "offline"

\* C9: whenever loading is true, news is empty.
C9_NoStaleWhileLoading == loading => news = <<>>

\* a new fetch is running after an earlier one had produced results (the
\* filter can only have been set while results were shown)
C9_Witness ==
  /\ loading
  /\ event.op = "scrapeNews"
  /\ filterKeyword = "tech"

\* C10 (as claimed): error goes from non-empty to empty only by the user's
\* dismissal or by the start of a new submission, and a dismissal changes
\* nothing but error.
C10_ClearedOnlyByUserOrSubmit ==
  [][ /\ (Truthy(error) /\ error' = "") => event'.op \in {"dismissError", "scrapeNews"}
      /\ event'.op = "dismissError" => UNCHANGED exceptError ]_vars

\* C10 (amended): error goes from non-empty to empty only by the user's
\* dismissal, by the Snackbar's auto-hide after 6000 ms, or by the start of a
\* new submission with a non-empty url; a dismissal changes nothing but error.
C10_ClearedOnlyByCloseOrSubmit ==
  [][ /\ (Truthy(error) /\ error' = "")
           => \/ event'.op \in {"dismissError", "snackbarAutoHide"}
              \/ event'.op = "scrapeNews" /\ Truthy(url)
      /\ event'.op = "dismissError" => UNCHANGED exceptError ]_vars

\* the user has dismissed an error message while a request was outstanding
C10_Witness ==
  /\ event.op = "dismissError"
  /\ error = ""
  /\ loading

\* C11: at most one scrape request is outstanding at any time, because the
\* button that triggers scrapeNews is not clickable while loading is true.
C11_SingleInFlight ==
  /\ Len(pending) <= 1
  /\ loading => ~ENABLED triggerScrape

\* a request is outstanding and the url is non-empty, so only loading keeps
\* the button disabled
C11_Witness ==
  /\ Len(pending) = 1
  /\ loading
  /\ Truthy(url)

\* the view a render has just computed, on engine e
ViewOf(e) == event.out.view[e]

\* kw occurs in text, case not regarded
ContainsCI(text, kw) == Includes(ToLowerCase(text), ToLowerCase(kw))

\* the article with this title occurs in sequence s
HasTitle(s, title) == \E i \in 1..Len(s) : s[i].title = title

\* the dates (titles) of the articles of s, in order
DatesOf(s) == [i \in 1..Len(s) |-> s[i].date]
TitlesOf(s) == [i \in 1..Len(s) |-> s[i].title]

Parseable(item) == ~GetTime(item.date).isNaN

\* C12: the view retains an article of news if and only if filterKeyword is
\* empty or is a case-insensitive substring of the article's title or of its
\* author.
C12_FilterRetains ==
  event.op = "render" =>
    \A e \in Engines : \A i \in 1..Len(news) :
      (\E j \in 1..Len(ViewOf(e)) : ViewOf(e)[j] = news[i])
        <=> \/ filterKeyword = ""
            \/ ContainsCI(news[i].title, filterKeyword)
            \/ ContainsCI(news[i].author, filterKeyword)

\* keyword "tech" keeps "New Tech Launch", keeps "Weather" by its author
\* "Techie Reporter", and drops "Sports Update" by "Juan"
C12_Witness ==
  /\ event.op = "render"
  /\ filterKeyword = "tech"
  /\ TitlesOf(news) = <<"Sports Update", "Weather", "New Tech Launch">>
  /\ \A e \in Engines :
       /\ HasTitle(ViewOf(e), "New Tech Launch")
       /\ HasTitle(ViewOf(e), "Weather")
       /\ ~HasTitle(ViewOf(e), "Sports Update")

\* C13: with sortBy = date and every date of news parseable, each element of
\* the view has a date not older than that of the element after it.
C13_DateDescending ==
  (event.op = "render" /\ sortBy = "date"
     /\ \A i \in 1..Len(news) : Parseable(news[i]))
    => \A e \in Engines : \A j \in 1..(Len(ViewOf(e)) - 1) :
         GetTime(ViewOf(e)[j].date).val >= GetTime(ViewOf(e)[j + 1].date).val

\* dates 2024-01-10, 2024-03-01, 2024-02-15 come out as 03-01, 02-15, 01-10
C13_Witness ==
  /\ event.op = "render"
  /\ sortBy = "date"
  /\ filterKeyword = ""
  /\ DatesOf(news) = <<"2024-01-10", "2024-03-01", "2024-02-15">>
  /\ \A e \in Engines :
       DatesOf(ViewOf(e)) = <<"2024-03-01", "2024-02-15", "2024-01-10">>

\* C14: with sortBy = date and some dates unparsable, the articles with
\* parseable dates still appear in the view in descending date order relative
\* to one another, for every order of news.
C14_ParseableStayDescending ==
  (event.op = "render" /\ sortBy = "date")
    => \A e \in Engines : \A i, j \in 1..Len(ViewOf(e)) :
         (i < j /\ Parseable(ViewOf(e)[i]) /\ Parseable(ViewOf(e)[j]))
           => GetTime(ViewOf(e)[i].date).val >= GetTime(ViewOf(e)[j].date).val

\* C15: with sortBy = title, each title of the view compares less than or
\* equal to the title after it under the locale comparison (letters before
\* case).
C15_TitleAscending ==
  (event.op = "render" /\ sortBy = "title")
    => \A e \in Engines : \A j \in 1..(Len(ViewOf(e)) - 1) :
         LocaleCompare(ViewOf(e)[j].title, ViewOf(e)[j + 1].title) <= 0

\* titles Banana, apple, Cherry come out as apple, Banana, Cherry
C15_Witness ==
  /\ event.op = "render"
  /\ sortBy = "title"
  /\ filterKeyword = ""
  /\ TitlesOf(news) = <<"Banana", "apple", "Cherry">>
  /\ \A e \in Engines : TitlesOf(ViewOf(e)) = <<"apple", "Banana", "Cherry">>

\* C16: computing the view leaves news (its elements and their order) as it
\* was, and the view computed again from the state the render left behind is
\* the same sequence.
C16_RenderIsPure ==
  /\ [][ event'.op = "render" => news' = news ]_vars
  /\ [](event.op = "render" => event.out = Rendered)

\* a render has reordered a three-article list for the view
C16_Witness ==
  /\ event.op = "render"
  /\ Len(news) = 3
  /\ filterKeyword = ""
  /\ \A e \in Engines : ViewOf(e) # news

\* C17: a change of the filter keyword or of the sort key leaves news,
\* loading, error, serverStatus and url as they were.
C17_CriteriaFrame ==
  [][ event'.op \in {"setFilterKeyword", "setSortBy"}
        => UNCHANGED <<news, loading, error, serverStatus, url>> ]_vars

\* the keyword was changed while results and an error message were showing
C17_Witness ==
  /\ event.op = "setFilterKeyword"
  /\ filterKeyword = "tech"
  /\ news # <<>>
  /\ error = OfflineMsg

\* C18: no automatic retry.  The probe is issued once and never again; an
\* accepted submit adds exactly one outstanding request; the processing of an
\* outcome removes one and issues none; no other event issues a request.
C18_NoAutomaticRetry ==
  /\ probe = "pending"
  /\ [][ /\ probe # "pending" => probe' # "pending"
         /\ (event'.op = "scrapeNews" /\ Truthy(url))
              => Len(pending') = Len(pending) + 1
         /\ event'.op \in {"scrapeFulfilled", "scrapeRejected"}
              => Len(pending') = Len(pending) - 1
         /\ event'.op \notin {"scrapeNews", "scrapeFulfilled", "scrapeRejected"}
              => pending' = pending ]_vars

\* both the probe and a scrape request have failed and nothing is outstanding
C18_Witness ==
  /\ event.op = "scrapeRejected"
  /\ probe = "rejected"
  /\ pending = <<>>

\* C19: whenever no request is outstanding and url is non-empty, the scrape
\* button can be clicked, whatever errors came before; the click issues a
\* request.
C19_RetryAlwaysPossible ==
  /\ [](pending = <<>> /\ Truthy(url) => ENABLED triggerScrape)
  /\ [][ (event'.op = "scrapeNews" /\ Truthy(url))
           => (loading' /\ Len(pending') = Len(pending) + 1) ]_vars

\* a new request was started after the probe had failed and an earlier
\* request had run (the filter can only be set while results are shown)
C19_Witness ==
  /\ event.op = "scrapeNews"
  /\ serverStatus = "offline"
  /\ filterKeyword = "tech"
  /\ Len(pending) = 1

\* C20: loading is true exactly when a scrape request is outstanding.
C20_LoadingIffOutstanding == loading <=> pending # <<>>

\* the probe failed while a request was outstanding: loading is still true
C20_Witness ==
  /\ event.op = "checkServerOffline"
  /\ loading
  /\ Len(pending) = 1

\* how many times item occurs in sequence s
Occurrences(s, item) == Cardinality({ i \in 1..Len(s) : s[i] = item })

\* C21: in every state the view is a rearrangement of exactly the elements of
\* news that pass the filter: each article occurs in the view as often as in
\* news when it passes and not at all otherwise; with an empty filterKeyword
\* the view is as long as news.
C21_ViewIsRearrangement ==
  \A e \in Engines :
    /\ \A item \in DeriveItems :
         Occurrences(filteredAndSortedNews(e), item) =
           IF \/ filterKeyword = ""
              \/ ContainsCI(item.title, filterKeyword)
              \/ ContainsCI(item.author, filterKeyword)
             THEN Occurrences(news, item)
             ELSE 0
    /\ \A j \in 1..Len(filteredAndSortedNews(e)) :
         filteredAndSortedNews(e)[j] \in DeriveItems
    /\ filterKeyword = "" => Len(filteredAndSortedNews(e)) = Len(news)

\* news holds an article twice and one that the keyword drops: the view keeps
\* both copies and nothing else
C21_Witness ==
  /\ filterKeyword = "tech"
  /\ Len(news) = 3
  /\ Occurrences(news, news[1]) = 2
  /\ \A e \in Engines :
       /\ Len(filteredAndSortedNews(e)) = 2
       /\ Occurrences(filteredAndSortedNews(e), news[1]) = 2

\* C22: the start of a submit and the processing of its outcome leave
\* filterKeyword, sortBy and url as they were, so the criteria set for an
\* earlier result set apply to the next one.
C22_SubmitKeepsCriteria ==
  [][ event'.op \in {"scrapeNews", "scrapeFulfilled", "scrapeRejected"}
        => UNCHANGED <<filterKeyword, sortBy, url>> ]_vars

\* a keyword set for an earlier result set is still in force after a new
\* response: news is non-empty and the view is empty
C22_Witness ==
  /\ event.op = "scrapeFulfilled"
  /\ filterKeyword = "tech"
  /\ sortBy = "title"
  /\ news # <<>>
  /\ \A e \in Engines : filteredAndSortedNews(e) = <<>>

====
